---- MODULE Spec2Model ----
(***************************************************************************)
(* Model of the grid-world explorer: SimpleEnvironment (environment.py),   *)
(* the BFS planner get_llm_response and the ReAct loop run_agent_loop      *)
(* (agent_explorer.py).                                                    *)
(*                                                                         *)
(* Text is a sequence of tokens.  A token is a word (\w+), a punctuation   *)
(* or whitespace character, a protocol label, or a fixed piece of an       *)
(* f-string.  Positions are 0-indexed (row, col) pairs as in the code.     *)
(***************************************************************************)
EXTENDS Integers, Sequences, FiniteSets, TLC

\* ------------------------------------------------------------------ bounds
\* Largest number of cells in which an input grid differs from the grid of
\* SimpleEnvironment.__init__.
MaxEdits == 1
\* Largest step budget (max_steps) a run is started with.
MaxSteps == 3

\* ------------------------------------------------------------------- text
SP == " "
NL == "\n"
None == <<>>

Whitespace == {SP, NL}

RECURSIVE Concat(_)
\* "".join(parts)
Concat(parts) ==
  IF parts = <<>> THEN <<>> ELSE Head(parts) \o Concat(Tail(parts))

RECURSIVE LStrip(_)
LStrip(s) ==
  IF s # <<>> /\ Head(s) \in Whitespace THEN LStrip(Tail(s)) ELSE s

RECURSIVE RStrip(_)
RStrip(s) ==
  IF s # <<>> /\ s[Len(s)] \in Whitespace
  THEN RStrip(SubSeq(s, 1, Len(s) - 1)) ELSE s

\* str.strip()
Strip(s) == RStrip(LStrip(s))

\* Index of the first token of s that is in set T, 0 when there is none.
IndexOf(s, T) ==
  IF \E i \in 1..Len(s) : s[i] \in T
  THEN CHOOSE i \in 1..Len(s) : s[i] \in T /\ \A j \in 1..(i - 1) : s[j] \notin T
  ELSE 0

\* str.split(',', 1): at most one split, at the first comma.
SplitFirstComma(s) ==
  LET i == IndexOf(s, {","})
  IN  IF i = 0 THEN <<s>>
      ELSE <<SubSeq(s, 1, i - 1), SubSeq(s, i + 1, Len(s))>>

\* str(n) for the small naturals of a position.
IntStr(n) == ToString(n)

\* str((r, c)) of a Python tuple: "(r, c)".
TupleStr(pos) == <<"(", IntStr(pos[1]), ",", SP, IntStr(pos[2]), ")">>

\* Tokens that contain the substring SUCCESS.
SuccessTokens ==
  { "SUCCESS",
    "SUCCESS: GOAL FOUND. You have reached the Treasure!",
    "SUCCESS: You are standing on the Treasure tile!",
    " SUCCESS - Agent reached the Treasure." }

\* Variant: the success test matches the word "successfully" as well.
ContainsSuccess_Loose(text) ==
  \E i \in 1..Len(text) :
    text[i] \in SuccessTokens \cup {"OBSERVATION: Moved successfully. New position: "}

\* "SUCCESS" in text
ContainsSuccess(text) == \E i \in 1..Len(text) : text[i] \in SuccessTokens

\* ------------------------------------------------------------------- grid
Open == "0"
Wall == "W"
Treasure == "T"
Kinds == {Open, Wall, Treasure}

DefaultRows ==
  << <<"W", "W", "W", "W", "W">>,
     <<"W", "0", "0", "W", "W">>,
     <<"W", "0", "W", "0", "T">>,
     <<"W", "0", "0", "0", "W">>,
     <<"W", "W", "W", "W", "W">> >>

\* self.grid of SimpleEnvironment.__init__, indexed from 0 as a Python list.
DefaultGrid ==
  [r \in 0..(Len(DefaultRows) - 1) |->
     [c \in 0..(Len(DefaultRows[r + 1]) - 1) |-> DefaultRows[r + 1][c + 1]]]

\* self.agent_pos of SimpleEnvironment.__init__
DefaultStart == <<1, 1>>

\* len(grid), len(grid[0])
NumRows(g) == Cardinality(DOMAIN g)
NumCols(g) == Cardinality(DOMAIN g[0])

Cells(g) == (DOMAIN g) \X (DOMAIN g[0])

EditCell(g, cell, k) == [g EXCEPT ![cell[1]][cell[2]] = k]

\* The cells in which an input grid may differ from the default layout: the
\* cells inside the wall frame up to the east border, and one frame cell on the
\* north and one on the west border next to the default start.
EditableCells ==
  {p \in Cells(DefaultGrid) : p[1] \in 1..3 /\ p[2] \in 1..4} \cup {<<0, 1>>, <<1, 0>>}

RECURSIVE GridsWithin(_)
\* The input grids: the default layout with at most n cells changed.
GridsWithin(n) ==
  IF n = 0 THEN {DefaultGrid}
  ELSE LET G == GridsWithin(n - 1)
       IN  G \cup {EditCell(g, cell, k) : g \in G, cell \in EditableCells, k \in Kinds}

Grids == GridsWithin(MaxEdits)

NonWallCells(g) == {p \in Cells(g) : g[p[1]][p[2]] # Wall}

\* ------------------------------------------------------------ environment
\* The agent's memory is a Python dict: insertion-ordered, one entry per key.
\* It is a sequence of [key, val] records.
DictKeys(mem) == {mem[i].key : i \in 1..Len(mem)}

DictGet(mem, k) == (CHOOSE i \in 1..Len(mem) : mem[i].key = k)

DictLookup(mem, k) == mem[DictGet(mem, k)].val

\* Variant: every write appends an entry.
DictSet_Append(mem, k, v) == Append(mem, [key |-> k, val |-> v])

\* mem[k] = v
DictSet(mem, k, v) ==
  IF k \in DictKeys(mem)
  THEN [mem EXCEPT ![DictGet(mem, k)].val = v]
  ELSE Append(mem, [key |-> k, val |-> v])

\* str.upper() on the direction texts the model uses.
UpperTok(t) ==
  CASE t = "north" -> "NORTH"
    [] t = "south" -> "SOUTH"
    [] t = "east"  -> "EAST"
    [] t = "West"  -> "WEST"
    [] t = "up"    -> "UP"
    [] t = "now"   -> "NOW"
    [] OTHER       -> t

Upper(s) == [i \in 1..Len(s) |-> UpperTok(s[i])]

InBounds(g, r, c) == 0 <= r /\ r < NumRows(g) /\ 0 <= c /\ c < NumCols(g)

MsgGoalFound == <<"SUCCESS: GOAL FOUND. You have reached the Treasure!">>
MsgMoved(pos) ==
  <<"OBSERVATION: Moved successfully. New position: ">> \o TupleStr(pos)
    \o <<". Area is Open.">>
MsgBlocked ==
  <<"OBSERVATION: Movement blocked by a Wall or grid boundary. Position remains unchanged.">>
MsgInvalidDirection == <<"ERROR: Invalid direction. Use NORTH, SOUTH, EAST, or WEST.">>
MsgOnTreasure == <<"SUCCESS: You are standing on the Treasure tile!">>
MsgOpenArea(pos) ==
  <<"OBSERVATION: You are at ">> \o TupleStr(pos) \o <<". This area is Open.">>
MsgMapUpdated(pos) ==
  <<"OBSERVATION: Map memory updated for location ">> \o pos \o <<".">>

\* SimpleEnvironment.get_pos
get_pos(pos) == TupleStr(pos)

\* SimpleEnvironment.update_map: the new memory and the returned text.
update_map(mem, pos, observation) ==
  [mem |-> DictSet(mem, pos, observation), ret |-> MsgMapUpdated(pos)]

\* SimpleEnvironment.look_around
look_around(g, pos) ==
  IF g[pos[1]][pos[2]] = Treasure THEN MsgOnTreasure ELSE MsgOpenArea(pos)

\* Variant: the wall test is left out.
NotWall_Ignored(g, r, c) == TRUE

\* The wall test of move_agent on a target cell that is inside the grid.
NotWall(g, r, c) == g[r][c] # Wall

\* SimpleEnvironment.move_agent: the new position and the returned text.
move_agent(g, pos, direction) ==
  LET d == Upper(direction)
      r == pos[1]
      c == pos[2]
      known == d \in {<<"NORTH">>, <<"SOUTH">>, <<"EAST">>, <<"WEST">>}
      new_r == IF d = <<"NORTH">> THEN r - 1 ELSE IF d = <<"SOUTH">> THEN r + 1 ELSE r
      new_c == IF d = <<"EAST">> THEN c + 1 ELSE IF d = <<"WEST">> THEN c - 1 ELSE c
  IN  IF ~known THEN [pos |-> pos, ret |-> MsgInvalidDirection]
      ELSE IF InBounds(g, new_r, new_c) /\ NotWall(g, new_r, new_c)
      THEN [pos |-> <<new_r, new_c>>,
            ret |-> IF g[new_r][new_c] = Treasure THEN MsgGoalFound
                    ELSE MsgMoved(<<new_r, new_c>>)]
      ELSE [pos |-> pos, ret |-> MsgBlocked]

\* ---------------------------------------------------------------- planner
\* The exploration order of neighbors().
Directions ==
  << [name |-> "NORTH", dr |-> -1, dc |-> 0],
     [name |-> "SOUTH", dr |-> 1,  dc |-> 0],
     [name |-> "EAST",  dr |-> 0,  dc |-> 1],
     [name |-> "WEST",  dr |-> 0,  dc |-> -1] >>

\* Variant: neighbors() does not test for walls.
neighbors_ThroughWalls(g, pos) ==
  LET cand(i) == [pos |-> <<pos[1] + Directions[i].dr, pos[2] + Directions[i].dc>>,
                  dir |-> Directions[i].name]
      ok(i) == InBounds(g, cand(i).pos[1], cand(i).pos[2])
      pick[i \in 0..Len(Directions)] ==
        IF i = 0 THEN <<>>
        ELSE IF ok(i) THEN Append(pick[i - 1], cand(i)) ELSE pick[i - 1]
  IN  pick[Len(Directions)]

\* neighbors(pos): the legal neighbours with the direction that leads there,
\* in exploration order.
neighbors(g, pos) ==
  LET cand(i) == [pos |-> <<pos[1] + Directions[i].dr, pos[2] + Directions[i].dc>>,
                  dir |-> Directions[i].name]
      ok(i) == InBounds(g, cand(i).pos[1], cand(i).pos[2])
               /\ g[cand(i).pos[1]][cand(i).pos[2]] # Wall
      pick[i \in 0..Len(Directions)] ==
        IF i = 0 THEN <<>>
        ELSE IF ok(i) THEN Append(pick[i - 1], cand(i)) ELSE pick[i - 1]
  IN  pick[Len(Directions)]

\* The row-major scan for 'T' cells.
targets(g) ==
  LET cols == NumCols(g)
      n == NumRows(g) * cols
      cell(k) == <<(k - 1) \div cols, (k - 1) % cols>>
      scan[k \in 0..n] ==
        IF k = 0 THEN <<>>
        ELSE IF g[cell(k)[1]][cell(k)[2]] = Treasure
             THEN Append(scan[k - 1], cell(k)) ELSE scan[k - 1]
  IN  scan[n]

RECURSIVE Visit_Stack(_, _, _, _)
\* Variant: new cells go to the front of the queue (q.appendleft).
Visit_Stack(nbrs, i, node, st) ==
  IF i > Len(nbrs) THEN st
  ELSE LET nbr == nbrs[i].pos
       IN  IF nbr \in DOMAIN st.prev THEN Visit_Stack(nbrs, i + 1, node, st)
           ELSE Visit_Stack(nbrs, i + 1, node,
                            [q |-> <<nbr>> \o st.q,
                             prev |-> (nbr :> node) @@ st.prev,
                             prev_move |-> (nbr :> nbrs[i].dir) @@ st.prev_move])

RECURSIVE Visit(_, _, _, _)
\* The for loop over neighbors(node) inside the BFS: st = [q, prev, prev_move].
Visit(nbrs, i, node, st) ==
  IF i > Len(nbrs) THEN st
  ELSE LET nbr == nbrs[i].pos
       IN  IF nbr \in DOMAIN st.prev THEN Visit(nbrs, i + 1, node, st)
           ELSE Visit(nbrs, i + 1, node,
                      [q |-> Append(st.q, nbr),
                       prev |-> (nbr :> node) @@ st.prev,
                       prev_move |-> (nbr :> nbrs[i].dir) @@ st.prev_move])

RECURSIVE BFS(_, _, _)
\* The while q loop: pops the head, stops on the target, expands otherwise.
BFS(g, target, st) ==
  IF st.q = <<>> THEN [found |-> FALSE, prev |-> st.prev, prev_move |-> st.prev_move]
  ELSE LET node == Head(st.q)
       IN  IF node = target
           THEN [found |-> TRUE, prev |-> st.prev, prev_move |-> st.prev_move]
           ELSE BFS(g, target,
                    Visit(neighbors(g, node), 1, node,
                          [q |-> Tail(st.q), prev |-> st.prev, prev_move |-> st.prev_move]))

Search(g, start, target) ==
  BFS(g, target, [q |-> <<start>>, prev |-> (start :> None), prev_move |-> <<>>])

RECURSIVE BackDirs(_, _)
\* The reconstruction loop: directions from the target back to the start.
BackDirs(cur, found) ==
  IF found.prev[cur] = None THEN <<>>
  ELSE <<found.prev_move[cur]>> \o BackDirs(found.prev[cur], found)

\* Variant: the reconstructed directions are left in target-to-start order.
Reverse_Missing(s) == s

Reverse(s) == [i \in 1..Len(s) |-> s[Len(s) + 1 - i]]

\* path_dirs for a search that found the target.
path_dirs(g, start, target) == Reverse(BackDirs(target, Search(g, start, target)))

\* The cached plan is the pair of function attributes _plan and _plan_owner;
\* has is hasattr(get_llm_response, "_plan").
NoPlan == [has |-> FALSE, plan |-> <<>>, owner |-> None]

FinalNoTreasure ==
  <<"Final Answer:", " No Treasure tile ('T') present in the environment grid.">>
FinalNoPath ==
  <<"Final Answer:", " No path to Treasure found (blocked by walls).">>
FinalSuccess ==
  <<"Final Answer:", " SUCCESS - Agent reached the Treasure.">>
FinalNoSteps ==
  <<"Final Answer:", " No further steps in plan and not on Treasure.">>

\* The three-line ReAct message of the planner for a move.
MoveMessage(steps, next_dir) ==
  <<"Thought: I computed a path of ", IntStr(steps),
    " steps to the Treasure. Next move is ", next_dir, ".">>
  \o <<NL, "Action:", SP, "move_agent">>
  \o <<NL, "Action Input:", SP, next_dir>>

\* Variant: a plan is computed only when none is cached.
PlanIsStale_OnlyMissing(cache, pos) == ~cache.has

\* The test that decides whether the cached plan is replaced.
PlanIsStale(cache, pos) == ~cache.has \/ cache.owner # pos

\* get_llm_response: the returned text and the cached plan after the call.
get_llm_response(g, pos, cache) ==
  LET ts == targets(g)
  IN  IF ts = <<>> THEN [out |-> FinalNoTreasure, cache |-> cache]
      ELSE LET target == ts[1]
               found == Search(g, pos, target).found
           IN  IF ~found THEN [out |-> FinalNoPath, cache |-> cache]
               ELSE LET c1 == IF PlanIsStale(cache, pos)
                              THEN [has |-> TRUE, plan |-> path_dirs(g, pos, target),
                                    owner |-> pos]
                              ELSE cache
                    IN  IF c1.plan = <<>>
                        THEN [out |-> IF g[pos[1]][pos[2]] = Treasure
                                      THEN FinalSuccess ELSE FinalNoSteps,
                              cache |-> c1]
                        ELSE [out |-> MoveMessage(Len(Tail(c1.plan)) + 1, Head(c1.plan)),
                              cache |-> [c1 EXCEPT !.plan = Tail(c1.plan)]]

\* --------------------------------------------------------------- protocol
ToolNames == {"move_agent", "look_around", "update_map", "get_pos"}

\* The tokens that \w+ matches whole.
WordTokens ==
  ToolNames \cup {"fly", "SUCCESS", "A", "Open", "now",
                  "NORTH", "SOUTH", "EAST", "WEST", "UP",
                  "north", "south", "east", "West", "up"}
            \cup {IntStr(n) : n \in 0..9}

\* Variant: the final test looks for another label.
IsFinal_WrongLabel(text) == text # <<>> /\ Head(text) = "Final:"

\* llm_output.startswith("Final Answer:")
IsFinal(text) == text # <<>> /\ Head(text) = "Final Answer:"

\* First index after i that holds no whitespace, Len(text) + 1 when none does.
SkipSpace(text, i) ==
  IF \E j \in (i + 1)..Len(text) : text[j] \notin Whitespace
  THEN CHOOSE j \in (i + 1)..Len(text) :
         /\ text[j] \notin Whitespace
         /\ \A k \in (i + 1)..(j - 1) : text[k] \in Whitespace
  ELSE Len(text) + 1

\* The longest prefix of a token that \w+ matches, "" when it has none.
WordPrefix(t) ==
  CASE t \in WordTokens    -> t
    [] t = "Action:"       -> "Action"
    [] t = "Action Input:" -> "Action"
    [] t = "Final Answer:" -> "Final"
    [] t = "Thought:"      -> "Thought"
    [] OTHER               -> ""

\* re.search(r"Action:\s*(\w+)", llm_output): None, or <<group(1)>>.
action_match(text) ==
  LET hit(i) == /\ text[i] = "Action:"
                /\ SkipSpace(text, i) <= Len(text)
                /\ WordPrefix(text[SkipSpace(text, i)]) # ""
      hits == {i \in 1..Len(text) : hit(i)}
  IN  IF hits = {} THEN None
      ELSE LET i == CHOOSE k \in hits : \A m \in hits : k <= m
           IN  <<WordPrefix(text[SkipSpace(text, i)])>>

\* re.search(r"Action Input:\s*(.+)", llm_output): None, or <<group(1)>>.
\* The group runs to the end of its line; when only whitespace follows the
\* label, the group is the blanks that \s* gives back.
input_match(text) ==
  LET labels == {i \in 1..Len(text) : text[i] = "Action Input:"}
      rest(i) == SubSeq(text, i + 1, Len(text))
      line(t) == IF IndexOf(t, {NL}) = 0 THEN t ELSE SubSeq(t, 1, IndexOf(t, {NL}) - 1)
      grp(i) ==
        LET j == SkipSpace(text, i)
        IN  IF j <= Len(text) THEN <<line(SubSeq(text, j, Len(text)))>>
            ELSE IF \E k \in (i + 1)..Len(text) : text[k] = SP THEN <<<<SP>>>>
            ELSE None
      hits == {i \in labels : grp(i) # None}
  IN  IF hits = {} THEN None
      ELSE grp(CHOOSE k \in hits : \A m \in hits : k <= m)

\* ------------------------------------------------------------------ tools
\* Number of parameters of each bound method in AVAILABLE_TOOLS.
Arity(tool) ==
  CASE tool = "move_agent"  -> 1
    [] tool = "look_around" -> 0
    [] tool = "update_map"  -> 2
    [] tool = "get_pos"     -> 0

\* str(e) of the TypeError of a call with the wrong number of arguments; the
\* counts include self.
TypeErrorText(tool, given) ==
  <<"SimpleEnvironment.", tool, "() takes ", IntStr(Arity(tool) + 1),
    IF Arity(tool) = 0 THEN " positional argument but " ELSE " positional arguments but ",
    IntStr(given + 1), " were given">>

\* Variant: a successful move also logs the new position in the memory.
CallTool_MoveLogs(g, pos, mem, tool, args) ==
  IF Len(args) # Arity(tool)
  THEN [pos |-> pos, mem |-> mem, raised |-> TRUE,
        ret |-> TypeErrorText(tool, Len(args))]
  ELSE CASE tool = "move_agent" ->
              LET m == move_agent(g, pos, args[1])
              IN  [pos |-> m.pos,
                   mem |-> IF m.pos = pos THEN mem
                           ELSE DictSet(mem, TupleStr(m.pos), <<"visited">>),
                   raised |-> FALSE, ret |-> m.ret]
         [] tool = "look_around" ->
              [pos |-> pos, mem |-> mem, raised |-> FALSE, ret |-> look_around(g, pos)]
         [] tool = "get_pos" ->
              [pos |-> pos, mem |-> mem, raised |-> FALSE, ret |-> get_pos(pos)]
         [] tool = "update_map" ->
              LET u == update_map(mem, args[1], args[2])
              IN  [pos |-> pos, mem |-> u.mem, raised |-> FALSE, ret |-> u.ret]

\* AVAILABLE_TOOLS[action](*args): the environment after the call and either
\* the returned text or the raised error.
CallTool(g, pos, mem, tool, args) ==
  IF Len(args) # Arity(tool)
  THEN [pos |-> pos, mem |-> mem, raised |-> TRUE,
        ret |-> TypeErrorText(tool, Len(args))]
  ELSE CASE tool = "move_agent" ->
              LET m == move_agent(g, pos, args[1])
              IN  [pos |-> m.pos, mem |-> mem, raised |-> FALSE, ret |-> m.ret]
         [] tool = "look_around" ->
              [pos |-> pos, mem |-> mem, raised |-> FALSE, ret |-> look_around(g, pos)]
         [] tool = "get_pos" ->
              [pos |-> pos, mem |-> mem, raised |-> FALSE, ret |-> get_pos(pos)]
         [] tool = "update_map" ->
              LET u == update_map(mem, args[1], args[2])
              IN  [pos |-> pos, mem |-> u.mem, raised |-> FALSE, ret |-> u.ret]

\* The arguments the loop passes to a tool for an action input.
ToolArgs(action, action_input) ==
  IF action = "update_map"
  THEN LET parts == SplitFirstComma(action_input)
           pos_str == Strip(parts[1])
           obs_str == IF Len(parts) > 1 THEN Strip(parts[2]) ELSE <<"Unknown">>
       IN  <<pos_str, obs_str>>
  ELSE <<action_input>>

\* Step 3 of the loop: the tool call with its try/except and the unknown-tool
\* branch.  kind is "ok", "tool_error" or "unknown_tool".
ExecuteAction(g, pos, mem, action, action_input) ==
  IF action \in ToolNames
  THEN LET r == CallTool(g, pos, mem, action, ToolArgs(action, action_input))
       IN  IF r.raised
           THEN [pos |-> r.pos, mem |-> r.mem, kind |-> "tool_error",
                 observation_result |->
                   <<"TOOL ERROR: Failed to execute tool '", action, "'. Error: ">>
                     \o r.ret]
           ELSE [pos |-> r.pos, mem |-> r.mem, kind |-> "ok",
                 observation_result |-> r.ret]
  ELSE [pos |-> pos, mem |-> mem, kind |-> "unknown_tool",
        observation_result |->
          <<"ERROR: Tool '", action, "' not found in AVAILABLE_TOOLS.">>]

\* ------------------------------------------------------- decision sources
SYSTEM_PROMPT == <<"You are an **Autonomous Explorer Agent** operating in a 5x5 grid world.">>

StartCommand == <<"Start exploration now. Find the Treasure efficiently.">>

\* A ReAct message as the system prompt prescribes it.
ReAct(tool, input) ==
  <<"Thought:", " next", NL, "Action:", SP, tool, NL, "Action Input:", SP>> \o input

\* The messages of a decision source other than the built-in planner.
OracleMessages ==
  { ReAct("move_agent", <<"north">>),
    ReAct("move_agent", <<"EAST">>),
    ReAct("move_agent", <<"up">>),
    ReAct("look_around", <<"now">>),
    ReAct("get_pos", <<"now">>),
    ReAct("update_map", TupleStr(DefaultStart) \o <<",", SP, "Area is Open.">>),
    ReAct("update_map", <<"A", ",", SP, "Open">>),
    ReAct("update_map", <<"A">>),
    ReAct("update_map", <<"A", ",">>),
    ReAct("update_map", <<"SUCCESS", ",", SP, "Open">>),
    ReAct("fly", <<"now">>),
    ReAct("SUCCESS", <<"now">>),
    <<"Thought:", " I am not sure what to do.">>,
    <<"Thought:", " look", NL, "Action:", SP, "look_around">>,
    <<"Final Answer:", " I give up.">> }

\* ------------------------------------------------------------------ state
VARIABLES
  grid,                  \* environment.grid
  agent_pos,             \* environment.agent_pos
  map_memory,            \* environment.map_memory
  plan_cache,            \* get_llm_response._plan and ._plan_owner
  source,                \* "planner": get_llm_response decides; "oracle": any source
  max_steps,             \* the step budget of the run
  step,                  \* the loop variable of run_agent_loop
  pc,                    \* position of the loop
  exit,                  \* how the loop ended
  conversation_history,  \* the role-tagged entries
  action,                \* the decoded tool name while dispatching
  action_input,          \* the decoded tool input while dispatching
  start_pos              \* agent_pos at construction

vars ==
  <<grid, agent_pos, map_memory, plan_cache, source, max_steps, step, pc, exit,
    conversation_history, action, action_input, start_pos>>

Entry(role, content) == [role |-> role, content |-> content]

Init ==
  /\ source \in {"planner", "oracle"}
  /\ grid \in (IF source = "planner" THEN Grids ELSE {DefaultGrid})
  /\ agent_pos \in NonWallCells(grid)
  /\ start_pos = agent_pos
  /\ map_memory = <<>>
  /\ plan_cache = NoPlan
  /\ max_steps \in 1..MaxSteps
  /\ step = 0
  /\ pc = "AwaitingDecision"
  /\ exit = "none"
  /\ conversation_history = <<Entry("system", SYSTEM_PROMPT), Entry("user", StartCommand)>>
  /\ action = None
  /\ action_input = None

\* Variant: a text that does not decode is dispatched as look_around.
Decode_Fallback(llm_output) ==
  /\ conversation_history' = Append(conversation_history, Entry("assistant", llm_output))
  /\ IF IsFinal(llm_output)
     THEN /\ pc' = "Terminated" /\ exit' = "final"
          /\ action' = None /\ action_input' = None
     ELSE IF action_match(llm_output) = None \/ input_match(llm_output) = None
     THEN /\ pc' = "Dispatching" /\ exit' = exit
          /\ action' = "look_around" /\ action_input' = <<>>
     ELSE /\ pc' = "Dispatching" /\ exit' = exit
          /\ action' = Strip(action_match(llm_output))[1]
          /\ action_input' = Strip(input_match(llm_output)[1])
  /\ UNCHANGED <<grid, agent_pos, map_memory, source, max_steps, step, start_pos>>

\* Variant: the decision text is not added to the history.
Decode_NoAppend(llm_output) ==
  /\ conversation_history' = conversation_history
  /\ IF IsFinal(llm_output)
     THEN /\ pc' = "Terminated" /\ exit' = "final"
          /\ action' = None /\ action_input' = None
     ELSE IF action_match(llm_output) = None \/ input_match(llm_output) = None
     THEN /\ pc' = "Terminated" /\ exit' = "malformed"
          /\ action' = None /\ action_input' = None
     ELSE /\ pc' = "Dispatching" /\ exit' = exit
          /\ action' = Strip(action_match(llm_output))[1]
          /\ action_input' = Strip(input_match(llm_output)[1])
  /\ UNCHANGED <<grid, agent_pos, map_memory, source, max_steps, step, start_pos>>

\* Steps 1 and 2 of an iteration for the decision text llm_output: append it,
\* stop on a final answer, decode it, stop when it does not decode.
Decode(llm_output) ==
  /\ conversation_history' = Append(conversation_history, Entry("assistant", llm_output))
  /\ IF IsFinal(llm_output)
     THEN /\ pc' = "Terminated" /\ exit' = "final"
          /\ action' = None /\ action_input' = None
     ELSE IF action_match(llm_output) = None \/ input_match(llm_output) = None
     THEN /\ pc' = "Terminated" /\ exit' = "malformed"
          /\ action' = None /\ action_input' = None
     ELSE /\ pc' = "Dispatching" /\ exit' = exit
          /\ action' = Strip(action_match(llm_output))[1]
          /\ action_input' = Strip(input_match(llm_output)[1])
  /\ UNCHANGED <<grid, agent_pos, map_memory, source, max_steps, step, start_pos>>

\* The iteration asks get_llm_response.
PlannerDecide ==
  /\ pc = "AwaitingDecision"
  /\ LET r == get_llm_response(grid, agent_pos, plan_cache)
     IN  /\ plan_cache' = r.cache
         /\ Decode(r.out)

\* The iteration asks a decision source that replaced the planner.
OracleDecide ==
  /\ pc = "AwaitingDecision"
  /\ source = "oracle"
  /\ \E msg \in OracleMessages : Decode(msg)
  /\ UNCHANGED plan_cache

\* Steps 3 to 5 of an iteration and the loop's continuation test.
Dispatch ==
  /\ pc = "Dispatching"
  /\ LET r == ExecuteAction(grid, agent_pos, map_memory, action, action_input)
     IN  /\ agent_pos' = r.pos
         /\ map_memory' = r.mem
         /\ conversation_history' =
              Append(conversation_history,
                     Entry("user", <<"Observation: ">> \o r.observation_result))
         /\ IF ContainsSuccess(r.observation_result)
            THEN /\ pc' = "Terminated" /\ exit' = "goal" /\ step' = step
            ELSE IF step + 1 < max_steps
            THEN /\ pc' = "AwaitingDecision" /\ exit' = exit /\ step' = step + 1
            ELSE /\ pc' = "Terminated" /\ exit' = "exhausted" /\ step' = step + 1
  /\ action' = None
  /\ action_input' = None
  /\ UNCHANGED <<grid, plan_cache, source, max_steps, start_pos>>

Next == PlannerDecide \/ OracleDecide \/ Dispatch

Spec == Init /\ [][Next]_vars

\* ------------------------------------------------------- claim vocabulary
\* A legal single step of the grid graph, stated without the planner's code.
LegalStep(g, p, q) ==
  /\ q \in Cells(g)
  /\ g[q[1]][q[2]] # Wall
  /\ (p[1] - q[1]) * (p[1] - q[1]) + (p[2] - q[2]) * (p[2] - q[2]) = 1

RECURSIVE Layer(_, _, _, _, _)
\* Shortest distance by layers of cells: seen holds the cells at distance < k,
\* front the cells at distance k.  -1 when the target is in no layer.
Layer(g, target, seen, front, k) ==
  IF target \in front THEN k
  ELSE LET nxt == {q \in Cells(g) : q \notin seen \cup front
                                    /\ \E p \in front : LegalStep(g, p, q)}
       IN  IF nxt = {} THEN -1
           ELSE Layer(g, target, seen \cup front, nxt, k + 1)

Distance(g, start, target) == Layer(g, target, {}, {start}, 0)

HasGoal(g) == \E p \in Cells(g) : g[p[1]][p[2]] = Treasure

\* The first Goal cell in row-major order.
FirstGoal(g) ==
  CHOOSE p \in Cells(g) :
    /\ g[p[1]][p[2]] = Treasure
    /\ \A q \in Cells(g) :
         g[q[1]][q[2]] = Treasure => (p[1] < q[1] \/ (p[1] = q[1] /\ p[2] <= q[2]))

RECURSIVE Replay(_, _, _)
\* The position after the moves dirs, made one by one with move_agent.
Replay(g, pos, dirs) ==
  IF dirs = <<>> THEN pos
  ELSE Replay(g, move_agent(g, pos, <<Head(dirs)>>).pos, Tail(dirs))

Last(s) == s[Len(s)]

Observations(h) == {i \in 1..Len(h) : h[i].role = "user" /\ i > 2}

\* C1: whenever the first Goal in row-major order is reachable from the start,
\* the planner finds it, its moves replayed with move_agent from the start on
\* the same layout end on that Goal, and there are exactly as many moves as the
\* shortest distance from the start to that Goal.  Grid and start are inputs no
\* action changes, so the property is evaluated in the first iteration of a run.
C1_PlanReachesGoalShortest ==
  (step = 0 /\ HasGoal(grid) /\ Distance(grid, start_pos, FirstGoal(grid)) >= 0) =>
    LET goal == FirstGoal(grid)
        plan == path_dirs(grid, start_pos, goal)
    IN  /\ targets(grid)[1] = goal
        /\ Search(grid, start_pos, goal).found
        /\ Replay(grid, start_pos, plan) = goal
        /\ Len(plan) = Distance(grid, start_pos, goal)

\* A planner-driven run that made the moves of a plan of two moves or more
\* through move_agent, one per iteration, and stands on the first Goal after
\* exactly as many moves as the shortest distance.
C1_Witness ==
  /\ source = "planner"
  /\ exit = "goal"
  /\ step >= 1
  /\ agent_pos = FirstGoal(grid)
  /\ step + 1 = Distance(grid, start_pos, agent_pos)
  /\ Replay(grid, start_pos, path_dirs(grid, start_pos, agent_pos)) = agent_pos

\* The direction texts move_agent is tried with.
DirectionTexts ==
  { <<"NORTH">>, <<"SOUTH">>, <<"EAST">>, <<"WEST">>, <<"north">>, <<"West">>,
    <<"up">>, <<"UP">>, <<>>, <<"NORTH", SP, "now">> }

\* The outcome a returned text of move_agent stands for.
MoveTag(ret) ==
  CASE ret = MsgGoalFound -> "success"
    [] ret # <<>> /\ Head(ret) = "OBSERVATION: Moved successfully. New position: " -> "moved"
    [] ret = MsgBlocked -> "blocked"
    [] ret = MsgInvalidDirection -> "invalid-direction"
    [] OTHER -> "none"

\* The cell a cardinal direction text points to from pos, None for other texts.
TargetCell(pos, d) ==
  CASE d \in {<<"NORTH">>, <<"north">>} -> <<pos[1] - 1, pos[2]>>
    [] d \in {<<"SOUTH">>}              -> <<pos[1] + 1, pos[2]>>
    [] d \in {<<"EAST">>}               -> <<pos[1], pos[2] + 1>>
    [] d \in {<<"WEST">>, <<"West">>}   -> <<pos[1], pos[2] - 1>>
    [] OTHER                            -> None

\* C2: in every reachable state and for every direction text, move_agent
\* returns one of success, moved, blocked, invalid-direction; the position
\* changes exactly when the outcome is success or moved; the outcome is
\* blocked exactly when the target is outside the grid or a Wall, and
\* invalid-direction exactly when the text is no cardinal direction.
C2_MoveOutcome ==
  \A d \in DirectionTexts :
    LET m == move_agent(grid, agent_pos, d)
        tag == MoveTag(m.ret)
        t == TargetCell(agent_pos, d)
    IN  /\ tag \in {"success", "moved", "blocked", "invalid-direction"}
        /\ (m.pos # agent_pos) <=> (tag \in {"success", "moved"})
        /\ (tag = "invalid-direction") <=> (t = None)
        /\ (tag = "blocked") <=>
             (t # None /\ (t \notin Cells(grid) \/ grid[t[1]][t[2]] = Wall))
        /\ (tag \in {"success", "moved"}) => m.pos = t
        /\ (tag = "success") => grid[m.pos[1]][m.pos[2]] = Treasure

\* The agent stands on the east border and the move EAST it was just told to
\* make was answered with the blocked observation.
C2_Witness ==
  /\ Len(conversation_history) >= 4
  /\ pc # "Dispatching"
  /\ agent_pos[2] = NumCols(grid) - 1
  /\ conversation_history[Len(conversation_history) - 1].content
       = ReAct("move_agent", <<"EAST">>)
  /\ Last(conversation_history).content = <<"Observation: ">> \o MsgBlocked

\* C3: on a grid without a Goal a planner-driven run asks one decision, which is
\* the "no Treasure" final answer: the loop ends on the final path with that
\* message as its third entry, nothing is dispatched, and position and memory
\* are as at the start.
C3_NoGoalFinal ==
  (source = "planner" /\ ~HasGoal(grid)) =>
    /\ \/ pc = "AwaitingDecision" /\ Len(conversation_history) = 2
       \/ /\ pc = "Terminated"
          /\ exit = "final"
          /\ Len(conversation_history) = 3
          /\ conversation_history[3] = Entry("assistant", FinalNoTreasure)
    /\ agent_pos = start_pos
    /\ map_memory = <<>>
    /\ step = 0

C3_Witness ==
  /\ source = "planner"
  /\ ~HasGoal(grid)
  /\ pc = "Terminated"
  /\ Last(conversation_history).content = FinalNoTreasure

\* C4: on a grid whose first Goal cannot be reached from the start a
\* planner-driven run asks one decision, which is the "no path" final answer:
\* the loop ends on the final path, nothing is dispatched and the position is
\* the start position.
C4_UnreachableFinal ==
  (source = "planner" /\ HasGoal(grid)
     /\ Distance(grid, start_pos, FirstGoal(grid)) = -1) =>
    /\ \/ pc = "AwaitingDecision" /\ Len(conversation_history) = 2
       \/ /\ pc = "Terminated"
          /\ exit = "final"
          /\ Len(conversation_history) = 3
          /\ conversation_history[3] = Entry("assistant", FinalNoPath)
    /\ agent_pos = start_pos
    /\ map_memory = <<>>
    /\ step = 0

\* The Goal of the default layout walled in by one changed cell.
C4_Witness ==
  /\ source = "planner"
  /\ grid = EditCell(DefaultGrid, <<2, 3>>, Wall)
  /\ start_pos = DefaultStart
  /\ pc = "Terminated"
  /\ Last(conversation_history).content = FinalNoPath

\* The states a planner-driven run with a budget of 1 passes through when it
\* ends by exhausting the budget after one dispatched move.
BudgetOneRun ==
  \/ pc = "AwaitingDecision" /\ Len(conversation_history) = 2 /\ exit = "none"
  \/ pc = "Dispatching" /\ Len(conversation_history) = 3 /\ exit = "none"
  \/ /\ pc = "Terminated"
     /\ exit = "exhausted"
     /\ exit \notin {"final", "goal", "malformed"}
     /\ step = 1
     /\ Len(conversation_history) = 4
     /\ Cardinality(Observations(conversation_history)) = 1
     /\ conversation_history[3].role = "assistant"
     /\ agent_pos # start_pos

\* Some Goal cell is one legal move from p.
GoalNextTo(g, p) ==
  \E q \in Cells(g) : LegalStep(g, p, q) /\ g[q[1]][q[2]] = Treasure

\* C5 as stated: a planner-driven run with a step budget of 1 on a grid whose
\* Goal (the first in row-major order, the planner's target) is two moves or
\* more from the start ends by exhausting the budget, not on the final,
\* goal-reached or protocol-failure path, with exactly one decision and one
\* observation after the two seed entries.
C5_BudgetOneExhausted_Original ==
  (source = "planner" /\ max_steps = 1 /\ HasGoal(grid)
     /\ Distance(grid, start_pos, FirstGoal(grid)) >= 2) => BudgetOneRun

\* C5 amended: the same, for grids on which in addition no Goal cell is one
\* move from the start (the first move of the plan may otherwise land on
\* another Goal and end the run on the goal-reached path).
C5_BudgetOneExhausted ==
  (source = "planner" /\ max_steps = 1 /\ HasGoal(grid)
     /\ Distance(grid, start_pos, FirstGoal(grid)) >= 2
     /\ ~GoalNextTo(grid, start_pos)) => BudgetOneRun

C5_Witness ==
  /\ source = "planner"
  /\ max_steps = 1
  /\ HasGoal(grid)
  /\ Distance(grid, start_pos, FirstGoal(grid)) >= 2
  /\ ~GoalNextTo(grid, start_pos)
  /\ pc = "Terminated"
  /\ exit = "exhausted"

HasActionMarker(text) == \E i \in 1..Len(text) : text[i] = "Action:"

\* C6: a decision text with neither an action marker nor the final marker ends
\* the loop in that step on the protocol-failure path: only the decision is
\* appended, nothing is dispatched, position and memory stay as they are, and
\* no step follows.
C6_MalformedTerminates ==
  [][ /\ exit # "malformed"
      /\ (pc = "AwaitingDecision"
          /\ ~IsFinal(Last(conversation_history').content)
          /\ ~HasActionMarker(Last(conversation_history').content)) =>
           /\ pc' = "Terminated"
           /\ exit' = "malformed"
           /\ Len(conversation_history') = Len(conversation_history) + 1
           /\ Last(conversation_history').role = "assistant"
           /\ agent_pos' = agent_pos
           /\ map_memory' = map_memory
           /\ step' = step ]_vars

\* A run that dispatched one action and then met a decision without markers.
C6_Witness ==
  /\ exit = "malformed"
  /\ Len(conversation_history) = 5
  /\ ~HasActionMarker(Last(conversation_history).content)
  /\ ~IsFinal(Last(conversation_history).content)

\* The text after the "Observation: " prefix of the last history entry.
LastObservation(h) == Tail(Last(h).content)

\* C7 as stated: a dispatched look_around or get_pos ignores its action input
\* and answers with its normal observation (the on-Treasure or open-area text,
\* the position report).
C7_QueryToolsIgnoreInput ==
  [][ (pc = "Dispatching" /\ action \in {"look_around", "get_pos"}) =>
        /\ Last(conversation_history').role = "user"
        /\ LastObservation(conversation_history') =
             (IF action = "look_around" THEN look_around(grid, agent_pos)
              ELSE get_pos(agent_pos)) ]_vars

\* C8 as stated: a dispatched update_map whose action input is a position
\* string as get_pos reports it, then ", ", then an observation text, leaves the
\* memory mapping that position string to that observation text.
C8_PositionKeyEncoding ==
  [][ (pc = "Dispatching" /\ action = "update_map") =>
        \A p \in Cells(grid) :
          LET key == get_pos(p)
              n == Len(key)
          IN  (Len(action_input) > n + 2
               /\ SubSeq(action_input, 1, n + 2) = key \o <<",", SP>>) =>
                /\ key \in DictKeys(map_memory')
                /\ DictLookup(map_memory', key)
                     = SubSeq(action_input, n + 3, Len(action_input)) ]_vars

\* Number of entries of mem with key k.
CountKey(mem, k) == Cardinality({i \in 1..Len(mem) : mem[i].key = k})

\* C9: update_map with key k and value v leaves the memory mapping k to v in
\* exactly one entry; a write to a key already present keeps the number of
\* entries, a write to a new key adds one; the entries of all other keys keep
\* their values and their order.
C9_LastWriteWins ==
  [][ (pc = "Dispatching" /\ action = "update_map") =>
        LET args == ToolArgs(action, action_input)
            k == args[1]
            v == args[2]
        IN  /\ CountKey(map_memory', k) = 1
            /\ DictLookup(map_memory', k) = v
            /\ Len(map_memory') =
                 (IF k \in DictKeys(map_memory) THEN Len(map_memory)
                  ELSE Len(map_memory) + 1)
            /\ \A i \in 1..Len(map_memory) :
                 /\ map_memory'[i].key = map_memory[i].key
                 /\ map_memory[i].key # k => map_memory'[i].val = map_memory[i].val ]_vars

\* Two writes to the key A: the memory holds the one entry of the second write.
C9_Witness ==
  /\ Len(conversation_history) = 6
  /\ conversation_history[3].content = ReAct("update_map", <<"A", ",", SP, "Open">>)
  /\ conversation_history[5].content = ReAct("update_map", <<"A">>)
  /\ map_memory = <<[key |-> <<"A">>, val |-> <<"Unknown">>]>>

\* C10 as stated: a dispatch of an unknown action name, or of a recognized tool
\* whose call raises, appends its error observation and, while budget remains,
\* returns the loop to AwaitingDecision; it never ends the run on the
\* goal-reached, final or protocol-failure path.
C10_ToolFaultsContinue ==
  [][ (pc = "Dispatching"
       /\ ExecuteAction(grid, agent_pos, map_memory, action, action_input).kind
            \in {"tool_error", "unknown_tool"}) =>
        /\ Len(conversation_history') = Len(conversation_history) + 1
        /\ Last(conversation_history').role = "user"
        /\ Head(LastObservation(conversation_history'))
             \in {"ERROR: Tool '", "TOOL ERROR: Failed to execute tool '"}
        /\ (step + 1 < max_steps => pc' = "AwaitingDecision")
        /\ exit' \in {"none", "exhausted"} ]_vars

\* Keys and values update_map is tried with.
MemoTexts == { <<"A">>, <<"Open">>, TupleStr(DefaultStart), <<"SUCCESS">>, <<>> }

\* The dispatch that is about to happen calls the tool (its arguments fit).
Calls(tool) ==
  /\ pc = "Dispatching"
  /\ action = tool
  /\ Len(ToolArgs(action, action_input)) = Arity(tool)

\* C11: in every reachable state a call of look_around or get_pos leaves
\* position and memory as they are, a call of move_agent (any direction text)
\* leaves the memory as it is and a call of update_map (any key and value)
\* leaves the position as it is; every dispatched move leaves the memory, every
\* dispatched update_map the position unchanged, and no step changes the grid.
C11_SideEffectsConfined ==
  /\ [](/\ \A t \in {"look_around", "get_pos"} :
             LET r == CallTool(grid, agent_pos, map_memory, t, <<>>)
             IN  ~r.raised /\ r.pos = agent_pos /\ r.mem = map_memory
        /\ \A d \in DirectionTexts :
             LET r == CallTool(grid, agent_pos, map_memory, "move_agent", <<d>>)
             IN  ~r.raised /\ r.mem = map_memory
        /\ \A k \in MemoTexts, v \in MemoTexts :
             LET r == CallTool(grid, agent_pos, map_memory, "update_map", <<k, v>>)
             IN  ~r.raised /\ r.pos = agent_pos)
  /\ [][ /\ grid' = grid
         /\ Calls("move_agent") => map_memory' = map_memory
         /\ Calls("update_map") => agent_pos' = agent_pos
         /\ (pc = "Dispatching" /\ action \in {"look_around", "get_pos"}) =>
              (agent_pos' = agent_pos /\ map_memory' = map_memory) ]_vars

\* A run in which update_map wrote an entry and a later move changed the
\* position: the memory still holds exactly that entry.
C11_Witness ==
  /\ Len(conversation_history) = 6
  /\ conversation_history[3].content = ReAct("update_map", <<"A", ",", SP, "Open">>)
  /\ map_memory = <<[key |-> <<"A">>, val |-> <<"Open">>]>>
  /\ agent_pos # start_pos

\* The documented scenario: the built-in layout with the agent starting at
\* row 1, column 1; its only Goal is at row 2, column 4.
ScenarioGoal == <<2, 4>>

InScenario == grid = DefaultGrid /\ start_pos = DefaultStart

ScenarioPlan == path_dirs(DefaultGrid, DefaultStart, ScenarioGoal)

\* What move_agent answers to the last move of the plan when the plan is
\* replayed from the start.
ReplayReport(g, pos, dirs) ==
  move_agent(g, Replay(g, pos, SubSeq(dirs, 1, Len(dirs) - 1)),
             <<dirs[Len(dirs)]>>).ret

\* The planner has just answered its first request of the run.
FirstPlanMade ==
  /\ step = 0
  /\ pc = "Dispatching"
  /\ plan_cache.has
  /\ plan_cache.owner = start_pos
  /\ Last(conversation_history).content =
       get_llm_response(grid, start_pos, NoPlan).out

\* C12 as stated: in the scenario the planner's shortest plan has 4 moves, and
\* replaying it ends with the success answer on (2, 4).
C12_ScenarioPlan_Original ==
  InScenario =>
    /\ targets(grid)[1] = ScenarioGoal
    /\ Len(ScenarioPlan) = 4
    /\ FirstPlanMade => Len(plan_cache.plan) + 1 = 4
    /\ ReplayReport(grid, start_pos, ScenarioPlan) = MsgGoalFound
    /\ get_pos(Replay(grid, start_pos, ScenarioPlan)) = TupleStr(ScenarioGoal)

\* C12: in the scenario the planner's shortest plan has 6 moves (the built-in
\* layout has Walls at (1, 3) and (2, 2)); the plan the planner caches on its
\* first request is that plan less the move it emits; replaying the plan ends
\* with the success answer, and get_pos then reports (2, 4).
C12_ScenarioPlan ==
  InScenario =>
    /\ targets(grid)[1] = ScenarioGoal
    /\ Len(ScenarioPlan) = 6
    /\ Distance(grid, start_pos, ScenarioGoal) = 6
    /\ FirstPlanMade =>
         /\ Len(plan_cache.plan) + 1 = 6
         /\ <<action_input[1]>> \o plan_cache.plan = ScenarioPlan
    /\ ReplayReport(grid, start_pos, ScenarioPlan) = MsgGoalFound
    /\ get_pos(Replay(grid, start_pos, ScenarioPlan)) = TupleStr(ScenarioGoal)

\* The planner has made its plan in the scenario.
C12_Witness == InScenario /\ FirstPlanMade /\ Len(plan_cache.plan) = 5

\* C13 as stated: every entry of the memory has a non-empty key and a
\* non-empty observation text, and a dispatched update_map whose action input
\* has no observation field (no comma) stores the placeholder.
C13_EntriesNonEmpty ==
  /\ [](\A i \in 1..Len(map_memory) :
          map_memory[i].key # <<>> /\ map_memory[i].val # <<>>)
  /\ [][ (pc = "Dispatching" /\ action = "update_map"
            /\ IndexOf(action_input, {","}) = 0) =>
           /\ Strip(action_input) \in DictKeys(map_memory')
           /\ DictLookup(map_memory', Strip(action_input)) = <<"Unknown">> ]_vars

\* The texts only get_llm_response produces: its move message and its four
\* final answers.
IsPlannerMove(text) == text # <<>> /\ Head(text) = "Thought: I computed a path of "

IsPlannerText(text) ==
  IsPlannerMove(text) \/
  text \in {FinalNoTreasure, FinalNoPath, FinalSuccess, FinalNoSteps}

\* This step is an iteration that asked get_llm_response.
PlannerAnswers ==
  /\ pc = "AwaitingDecision"
  /\ Len(conversation_history') = Len(conversation_history) + 1
  /\ IsPlannerText(Last(conversation_history').content)

\* The direction a planner move message ends with.
EmittedDirection(text) == <<Last(text)>>

\* C14: when get_llm_response is asked while a plan is cached whose owner is
\* not the agent's position (and the first Goal is reachable and not under the
\* agent), the plan is recomputed from the position: the owner becomes the
\* position, the emitted move is a legal step to a cell one closer to the Goal,
\* and the moves left in the cache continue a shortest path to the Goal.
\* Whenever a move is emitted, the plan it was taken from is owned by the
\* agent's position.
C14_PlanValidByOrigin ==
  [][ PlannerAnswers =>
        LET text == Last(conversation_history').content
            q == TargetCell(agent_pos, EmittedDirection(text))
            d == Distance(grid, agent_pos, FirstGoal(grid))
        IN  /\ (plan_cache.has /\ plan_cache.owner # agent_pos
                  /\ HasGoal(grid) /\ d >= 1) =>
                 /\ IsPlannerMove(text)
                 /\ plan_cache'.owner = agent_pos
                 /\ q # None
                 /\ LegalStep(grid, agent_pos, q)
                 /\ Distance(grid, q, FirstGoal(grid)) = d - 1
                 /\ Len(plan_cache'.plan) = d - 1
                 /\ Replay(grid, q, plan_cache'.plan) = FirstGoal(grid)
            /\ IsPlannerMove(text) =>
                 /\ plan_cache'.has
                 /\ plan_cache'.owner = agent_pos
                 /\ PlanIsStale(plan_cache, agent_pos) =>
                      Len(plan_cache'.plan) = d - 1
                 /\ ~PlanIsStale(plan_cache, agent_pos) =>
                      plan_cache.plan =
                        EmittedDirection(text) \o plan_cache'.plan ]_vars

\* The planner was asked with a plan cached for another position and has
\* answered with a move from a plan made for where the agent is.
C14_Witness ==
  /\ pc = "Dispatching"
  /\ step >= 1
  /\ IsPlannerMove(Last(conversation_history).content)
  /\ IsPlannerMove(conversation_history[3].content)
  /\ agent_pos # start_pos
  /\ plan_cache.owner = agent_pos

\* C15 as stated: whenever get_llm_response is asked, its decision is the one
\* it gives for the same grid and position with no plan cached: the same kind
\* of answer and, for a move, the same direction.
C15_PlannerDeterministic ==
  [][ PlannerAnswers =>
        LET text == Last(conversation_history').content
            fresh == get_llm_response(grid, agent_pos, NoPlan).out
        IN  /\ IsPlannerMove(text) = IsPlannerMove(fresh)
            /\ IsPlannerMove(text) =>
                 EmittedDirection(text) = EmittedDirection(fresh)
            /\ ~IsPlannerMove(text) => text = fresh ]_vars

\* The success token occurs in a text (every text of the model that holds the
\* token holds it as a whole token or at the head of the success answer).
HasSuccessToken(text) ==
  \E i \in 1..Len(text) : text[i] \in {"SUCCESS", MsgGoalFound[1], MsgOnTreasure[1]}

\* C16: a dispatch whose observation contains the success token appends the
\* observation and leaves the loop Terminated on the goal-reached path in the
\* same step, after which no step follows; a dispatch whose observation does
\* not contain it returns to AwaitingDecision when an iteration of the budget
\* remains.
C16_GoalTermination ==
  [][ /\ pc = "Dispatching" =>
           LET obs == Tail(Last(conversation_history').content)
           IN  /\ Len(conversation_history') = Len(conversation_history) + 1
               /\ Last(conversation_history').role = "user"
               /\ HasSuccessToken(obs) => (pc' = "Terminated" /\ exit' = "goal")
               /\ (~HasSuccessToken(obs) /\ step + 1 < max_steps) =>
                    (pc' = "AwaitingDecision" /\ exit' = "none")
      /\ exit # "goal" ]_vars

\* A run that continued after an observation without the token and ended on
\* the goal-reached path with the observation of its second dispatch.
C16_Witness ==
  /\ pc = "Terminated"
  /\ exit = "goal"
  /\ Len(conversation_history) = 6
  /\ ~HasSuccessToken(Tail(conversation_history[4].content))
  /\ Tail(Last(conversation_history).content) = MsgGoalFound

\* The order of a history: the system prompt, the start command, then
\* decisions at the odd and observations at the even places.
HistoryInOrder(h) ==
  /\ Len(h) >= 2
  /\ h[1] = [role |-> "system", content |-> SYSTEM_PROMPT]
  /\ h[2] = [role |-> "user", content |-> StartCommand]
  /\ \A i \in 3..Len(h) :
       IF i % 2 = 1
       THEN h[i].role = "assistant"
       ELSE /\ h[i].role = "user"
            /\ Head(h[i].content) = "Observation: "
            /\ h[i - 1].role = "assistant"

\* C17: the history always starts with the system entry and the user's start
\* command and then alternates decision, observation, so every observation
\* directly follows its decision and only the last decision can lack one (it
\* does while its dispatch is pending or when it ended the loop); every step
\* adds exactly one entry at the end and leaves the earlier entries as they
\* are.
C17_HistoryAppendOnly ==
  /\ [](/\ HistoryInOrder(conversation_history)
        /\ pc = "AwaitingDecision" => Len(conversation_history) % 2 = 0
        /\ pc = "Dispatching" => Len(conversation_history) % 2 = 1
        /\ Cardinality(Observations(conversation_history)) = step
             + (IF exit = "goal" THEN 1 ELSE 0))
  /\ [][ /\ Len(conversation_history') = Len(conversation_history) + 1
         /\ SubSeq(conversation_history', 1, Len(conversation_history))
              = conversation_history ]_vars

\* Two decisions with their observations, then a decision that ended the loop
\* without one.
C17_Witness ==
  /\ pc = "Terminated"
  /\ Len(conversation_history) = 7
  /\ Last(conversation_history).role = "assistant"
  /\ exit \in {"final", "malformed"}

\* A run driven by get_llm_response alone on a grid whose Goal (the first in
\* row-major order, the planner's target) is d >= 1 moves from the start, with
\* a budget of d or more.
PlannerRunToGoal ==
  /\ source = "planner"
  /\ HasGoal(grid)
  /\ Distance(grid, start_pos, FirstGoal(grid)) >= 1
  /\ max_steps >= Distance(grid, start_pos, FirstGoal(grid))

\* Some other Goal cell is nearer to the start than the planner's target.
NearerGoal(g, start) ==
  \E q \in Cells(g) :
    /\ g[q[1]][q[2]] = Treasure
    /\ q # FirstGoal(g)
    /\ Distance(g, start, q) >= 0
    /\ Distance(g, start, q) < Distance(g, start, FirstGoal(g))

\* What the claim says of such a run, d being the distance from the start to
\* the target: every decision is a planner move, every observation is a move
\* that was carried out, each dispatched move brings the agent one closer, the
\* run is never longer than d moves, and it ends on the goal-reached path
\* after exactly d moves, on the target.
RunsStraightToGoal ==
  LET d == Distance(grid, start_pos, FirstGoal(grid))
      n == Cardinality(Observations(conversation_history))
  IN  /\ exit \in {"none", "goal"}
      /\ \A i \in 3..Len(conversation_history) :
           IF conversation_history[i].role = "assistant"
           THEN /\ IsPlannerMove(conversation_history[i].content)
                /\ conversation_history[i].content # FinalNoSteps
           ELSE MoveTag(Tail(conversation_history[i].content))
                  \in {"moved", "success"}
      /\ n <= d
      /\ Distance(grid, agent_pos, FirstGoal(grid)) = d - n
      /\ pc = "Terminated" <=> n = d
      /\ pc = "Terminated" => (exit = "goal" /\ agent_pos = FirstGoal(grid))

\* C18 as stated: every run driven by the planner alone with a budget of at
\* least the distance d >= 1 to the Goal goes straight to the Goal.
C18_PlannerRunReachesGoal_Original == PlannerRunToGoal => RunsStraightToGoal

\* C18: every run driven by the planner alone with a budget of at least the
\* distance d >= 1 to the planner's target, on a grid where no other Goal cell
\* is nearer to the start than the target, goes straight to the target: d
\* dispatched moves, none blocked or invalid, no "No further steps" answer,
\* and the loop ends on the goal-reached path with the d-th observation.
C18_PlannerRunReachesGoal ==
  (PlannerRunToGoal /\ ~NearerGoal(grid, start_pos)) => RunsStraightToGoal

\* A planner run that had budget to spare and ended on the goal-reached path
\* with its second move.
C18_Witness ==
  /\ PlannerRunToGoal
  /\ ~NearerGoal(grid, start_pos)
  /\ pc = "Terminated"
  /\ max_steps = 3
  /\ Distance(grid, start_pos, FirstGoal(grid)) = 2
  /\ Cardinality(Observations(conversation_history)) = 2
  /\ Tail(Last(conversation_history).content) = MsgGoalFound

\* C19 as stated: a loop that ended on the goal-reached path has the agent on
\* a Goal cell, and no dispatch of update_map, of a name that is no tool, or of
\* a tool call that raised ends the loop on the goal-reached path while the
\* agent is not on a Goal cell.
C19_GoalExitOnlyOnGoal ==
  /\ [](exit = "goal" => grid[agent_pos[1]][agent_pos[2]] = Treasure)
  /\ [][ (/\ pc = "Dispatching"
          /\ \/ action = "update_map"
             \/ action \notin ToolNames
             \/ ExecuteAction(grid, agent_pos, map_memory, action,
                              action_input).kind = "tool_error"
          /\ grid[agent_pos[1]][agent_pos[2]] # Treasure) =>
           exit' # "goal" ]_vars

\* The agent's position is a cell of the grid and not a Wall.
OnFreeCell(g, pos) ==
  /\ pos[1] \in 0..(NumRows(g) - 1)
  /\ pos[2] \in 0..(NumCols(g) - 1)
  /\ g[pos[1]][pos[2]] # Wall

\* C20: the agent, started on a non-Wall cell of the grid, is on a non-Wall
\* cell of the grid in every reachable state, and from every reachable state
\* a call of move_agent with any direction text, of look_around, of get_pos or
\* of update_map leaves it on one.
C20_PositionStaysFree ==
  /\ OnFreeCell(grid, start_pos)
  /\ OnFreeCell(grid, agent_pos)
  /\ \A d \in DirectionTexts :
       OnFreeCell(grid, CallTool(grid, agent_pos, map_memory, "move_agent", <<d>>).pos)
  /\ \A t \in {"look_around", "get_pos"} :
       OnFreeCell(grid, CallTool(grid, agent_pos, map_memory, t, <<>>).pos)
  /\ \A k \in MemoTexts :
       OnFreeCell(grid, CallTool(grid, agent_pos, map_memory, "update_map", <<k, k>>).pos)

\* The agent made a move and then had a move rejected at a Wall or at the
\* edge of the grid.
C20_Witness ==
  /\ agent_pos # start_pos
  /\ Len(conversation_history) >= 6
  /\ Tail(Last(conversation_history).content) = MsgBlocked
  /\ \E d \in DirectionTexts :
       /\ TargetCell(agent_pos, d) # None
       /\ ~OnFreeCell(grid, TargetCell(agent_pos, d))

====
